---- MODULE Spec2Model ----
(***************************************************************************)
(* Model of main.py: the disease-name validator validate_disease_name and  *)
(* the two request handlers get_remedies (GET /remedies/{disease}) and     *)
(* generate_summary (GET /cohere-summary/{disease}) with their calls to    *)
(* the record store (supabase) and the text summarizer (cohere).           *)
(*                                                                         *)
(* A string is a sequence of code points (ASCII, 0..127).  A request is    *)
(* followed from one collaborator call to the next: pc is the position of  *)
(* the handler, calls is the log of collaborator calls of the request.     *)
(***************************************************************************)
EXTENDS Integers, Sequences, FiniteSets, TLC

VARIABLES endpoint, disease, pc, clean_disease, disease_data, remedies_data,
          calls, response

vars == <<endpoint, disease, pc, clean_disease, disease_data, remedies_data,
          calls, response>>

(* ---------------------------- bounds ----------------------------------- *)
\* longest raw string enumerated exhaustively over Alphabet
MaxLen == 3
\* most rows the diseases query returns
MaxRows == 1
\* most rows the herbal_remedies query returns
MaxRemedies == 1
\* most generations the summarizer returns
MaxGenerations == 1

(* ---------------------------- characters ------------------------------- *)
\* '_' and '-', the class [_-] of re.sub
separator_chars == {95, 45}
\* the replacement ' ' of re.sub
space == 32
\* '-', the literal member of the class [\w\s-]
hyphen == 45
\* len(clean_name) > 50
max_length == 50

\* str.isspace() / \s on ASCII: \t \n \v \f \r FS GS RS US and ' '
isspace(c) == c \in {9, 10, 11, 12, 13, 28, 29, 30, 31, 32}

\* \w on ASCII: digits, letters and '_'
isword(c) == c \in (48..57) \cup (65..90) \cup (97..122) \cup {95}

\* str.lower() on one ASCII character
lower_char(c) == IF c \in 65..90 THEN c + 32 ELSE c

\* the characters raw strings are enumerated over:
\* 'A' 'a' '1' '_' '-' ' ' '\t' '!'
Alphabet == {65, 97, 49, 95, 45, 32, 9, 33}

(* ---------------------------- string functions ------------------------- *)
\* re.sub(r'[_-]', ' ', name)
re_sub(name) ==
    [i \in 1..Len(name) |-> IF name[i] \in separator_chars THEN space ELSE name[i]]

RECURSIVE lstrip(_)
lstrip(s) == IF s = <<>> THEN s
             ELSE IF isspace(Head(s)) THEN lstrip(Tail(s)) ELSE s

RECURSIVE rstrip(_)
rstrip(s) == IF s = <<>> THEN s
             ELSE IF isspace(s[Len(s)]) THEN rstrip(SubSeq(s, 1, Len(s) - 1)) ELSE s

\* a plausible slip: only the leading whitespace is removed
strip_leading_only(s) == lstrip(s)

\* str.strip()
strip(s) == rstrip(lstrip(s))

\* str.lower()
lower(s) == [i \in 1..Len(s) |-> lower_char(s[i])]

\* a plausible slip: '*' for '+', the empty string matches
re_match_star(s) ==
    \A i \in 1..Len(s) : isword(s[i]) \/ isspace(s[i]) \/ s[i] = hyphen

\* re.match(r'^[\w\s-]+$', clean_name) is not None
re_match(s) ==
    /\ Len(s) >= 1
    /\ \A i \in 1..Len(s) : isword(s[i]) \/ isspace(s[i]) \/ s[i] = hyphen

(* ---------------------------- exceptions ------------------------------- *)
\* raise HTTPException(status_code, detail=...)
HTTPException(status_code, detail) ==
    [type |-> "HTTPException", status_code |-> status_code, detail |-> detail]

\* any exception that is neither an HTTPException nor a cohere.CohereError
OtherException == [type |-> "Exception", status_code |-> 0, detail |-> "error"]

\* cohere.CohereError (and its subclasses)
CohereError == [type |-> "CohereError", status_code |-> 0, detail |-> "cohere error"]

\* the outcome of validate_disease_name: a returned string or a raised exception
Returned(s) == [raised |-> FALSE, value |-> s, exc |-> HTTPException(0, "")]
Raised(e) == [raised |-> TRUE, value |-> <<>>, exc |-> e]

(* ---------------------------- validate_disease_name -------------------- *)
\* a plausible slip: the length is checked before the characters
validate_length_first(name) ==
    LET clean_name == lower(strip(re_sub(name)))
    IN  IF Len(clean_name) > max_length
        THEN Raised(HTTPException(400, "Disease name too long (max 50 chars)"))
        ELSE IF ~ re_match(clean_name)
        THEN Raised(HTTPException(400, "Invalid characters in disease name"))
        ELSE Returned(clean_name)

\* a plausible slip: strip() applied before the separators are replaced
validate_strip_first(name) ==
    LET clean_name == lower(re_sub(strip(name)))
    IN  IF ~ re_match(clean_name)
        THEN Raised(HTTPException(400, "Invalid characters in disease name"))
        ELSE IF Len(clean_name) > max_length
        THEN Raised(HTTPException(400, "Disease name too long (max 50 chars)"))
        ELSE Returned(clean_name)

validate_disease_name(name) ==
    LET clean_name == lower(strip(re_sub(name)))
    IN  IF ~ re_match(clean_name)
        THEN Raised(HTTPException(400, "Invalid characters in disease name"))
        ELSE IF Len(clean_name) > max_length
        THEN Raised(HTTPException(400, "Disease name too long (max 50 chars)"))
        ELSE Returned(clean_name)

(* ---------------------------- except clauses --------------------------- *)
\* a plausible slip: no 'except HTTPException' clause, everything becomes a 500
get_remedies_except_all(e) == HTTPException(500, "Database error")

\* the except clauses of get_remedies: the exception that leaves the handler
get_remedies_except(e) ==
    IF e.type = "HTTPException" THEN e
    ELSE HTTPException(500, "Database error")

\* a plausible slip: no 'except cohere.CohereError' clause
generate_summary_except_no_cohere(e) ==
    IF e.type = "HTTPException" THEN e
    ELSE HTTPException(500, "Summary error")

\* a plausible slip: no 'except HTTPException' clause, the 500 is re-wrapped
generate_summary_except_wrap(e) ==
    IF e.type = "CohereError" THEN HTTPException(503, "Cohere API error")
    ELSE HTTPException(500, "Summary error")

\* the except clauses of generate_summary: the exception that leaves the handler
generate_summary_except(e) ==
    IF e.type = "CohereError" THEN HTTPException(503, "Cohere API error")
    ELSE IF e.type = "HTTPException" THEN e
    ELSE HTTPException(500, "Summary error")

(* ---------------------------- requests --------------------------------- *)
Endpoints == {"remedies", "cohere-summary"}

Rep(c, n) == [i \in 1..n |-> c]

Strings(n) == UNION {[1..k -> Alphabet] : k \in 0..n}

\* "Common_Cold", "  Migraine  ", "flu!!!", "___", "-_-"
Examples ==
    { <<67, 111, 109, 109, 111, 110, 95, 67, 111, 108, 100>>,
      <<32, 32, 77, 105, 103, 114, 97, 105, 110, 101, 32, 32>>,
      <<102, 108, 117, 33, 33, 33>>,
      <<95, 95, 95>>,
      <<45, 95, 45>> }

\* strings around the length limit: 49, 50 or 51 'a' with at most one
\* character of Alphabet before and after
Boundary ==
    { pre \o Rep(97, n) \o suf :
        n \in (max_length - 1)..(max_length + 1),
        pre \in Strings(1), suf \in Strings(1) }

\* the raw path parameters a request may carry
RawNames == Strings(MaxLen) \cup Examples \cup Boundary

NoResponse == [status_code |-> 0, detail |-> "", disease |-> <<>>, summary |-> FALSE]

NoData == [disease |-> <<>>, remedies |-> 0]

\* the HTTP response FastAPI builds from an HTTPException
ErrorResponse(e) ==
    [status_code |-> e.status_code, detail |-> e.detail,
     disease |-> <<>>, summary |-> FALSE]

\* an exception raised inside the try block of get_remedies, seen by the client
Propagate(ep, e) ==
    IF ep = "remedies" THEN ErrorResponse(get_remedies_except(e))
    ELSE ErrorResponse(generate_summary_except(get_remedies_except(e)))

Call(name, key, raised, n) == [call |-> name, key |-> key, raised |-> raised, n |-> n]

Init ==
    /\ endpoint = "remedies"
    /\ disease = <<>>
    /\ pc = "idle"
    /\ clean_disease = <<>>
    /\ disease_data = 0
    /\ remedies_data = NoData
    /\ calls = <<>>
    /\ response = NoResponse

\* the handler of endpoint ep is entered with the path parameter raw and runs
\* up to its first collaborator call
Handle(ep, raw) ==
    /\ pc = "idle"
    /\ endpoint' = ep
    /\ disease' = raw
    /\ calls' = <<>>
    /\ disease_data' = 0
    /\ remedies_data' = NoData
    /\ LET v == validate_disease_name(raw)
       IN  IF v.raised
           THEN /\ clean_disease' = <<>>
                /\ response' = Propagate(ep, v.exc)
                /\ pc' = "done"
           ELSE /\ clean_disease' = v.value
                /\ response' = NoResponse
                /\ pc' = "diseases"

\* a plausible slip: a failed diseases query is issued again
diseases_query_retry ==
    /\ pc = "diseases"
    /\ UNCHANGED <<endpoint, disease, clean_disease, remedies_data>>
    /\ \/ /\ Len(calls) < 2
          /\ calls' = Append(calls, Call("diseases", clean_disease, "Exception", 0))
          /\ UNCHANGED <<disease_data, response, pc>>
       \/ \E n \in 0..MaxRows :
            /\ calls' = Append(calls, Call("diseases", clean_disease, "none", n))
            /\ disease_data' = n
            /\ IF n = 0
               THEN /\ response' = Propagate(endpoint, HTTPException(404, "Disease not found"))
                    /\ pc' = "done"
               ELSE /\ pc' = "herbal_remedies"
                    /\ UNCHANGED response

\* a plausible slip: no 'if not disease_data.data' check
diseases_query_no_check ==
    /\ pc = "diseases"
    /\ UNCHANGED <<endpoint, disease, clean_disease, remedies_data>>
    /\ \E n \in 0..MaxRows :
         /\ calls' = Append(calls, Call("diseases", clean_disease, "none", n))
         /\ disease_data' = n
         /\ pc' = "herbal_remedies"
         /\ UNCHANGED response

\* supabase.table("diseases").select("*").ilike("name", clean_disease).execute()
\* and the check of its rows
diseases_query ==
    /\ pc = "diseases"
    /\ UNCHANGED <<endpoint, disease, clean_disease, remedies_data>>
    /\ \/ /\ calls' = Append(calls, Call("diseases", clean_disease, "Exception", 0))
          /\ response' = Propagate(endpoint, OtherException)
          /\ pc' = "done"
          /\ UNCHANGED disease_data
       \/ \E n \in 0..MaxRows :
            /\ calls' = Append(calls, Call("diseases", clean_disease, "none", n))
            /\ disease_data' = n
            /\ IF n = 0
               THEN /\ response' = Propagate(endpoint, HTTPException(404, "Disease not found"))
                    /\ pc' = "done"
               ELSE /\ pc' = "herbal_remedies"
                    /\ UNCHANGED response

\* supabase.table("herbal_remedies").select(...).eq("disease_id", id).execute()
\* and the return of get_remedies
herbal_remedies_query ==
    /\ pc = "herbal_remedies"
    /\ UNCHANGED <<endpoint, disease, clean_disease, disease_data>>
    /\ \/ /\ calls' = Append(calls, Call("herbal_remedies", <<1>>, "Exception", 0))
          /\ response' = Propagate(endpoint, OtherException)
          /\ pc' = "done"
          /\ UNCHANGED remedies_data
       \/ \E m \in 0..MaxRemedies :
            /\ calls' = Append(calls, Call("herbal_remedies", <<1>>, "none", m))
            /\ remedies_data' = [disease |-> clean_disease, remedies |-> m]
            /\ IF endpoint = "remedies"
               THEN /\ response' = [status_code |-> 200, detail |-> "",
                                    disease |-> clean_disease, summary |-> FALSE]
                    /\ pc' = "done"
               ELSE /\ pc' = "generate"
                    /\ UNCHANGED response

\* cohere_client.generate(model="command", prompt=prompt, ...) with the prompt
\* built from remedies_data, and the return of generate_summary
cohere_generate ==
    /\ pc = "generate"
    /\ UNCHANGED <<endpoint, disease, clean_disease, disease_data, remedies_data>>
    /\ pc' = "done"
    /\ \/ \E e \in {CohereError, OtherException} :
            /\ calls' = Append(calls, Call("generate", remedies_data.disease, e.type, 0))
            /\ response' = ErrorResponse(generate_summary_except(e))
       \/ \E g \in 0..MaxGenerations :
            /\ calls' = Append(calls, Call("generate", remedies_data.disease, "none", g))
            /\ response' =
                 IF g = 0
                 THEN ErrorResponse(generate_summary_except(
                          HTTPException(500, "Empty response from Cohere API")))
                 ELSE [status_code |-> 200, detail |-> "",
                       disease |-> remedies_data.disease, summary |-> TRUE]

\* the response has been sent: the request and its local variables are gone
Finish ==
    /\ pc = "done"
    /\ pc' = "idle"
    /\ endpoint' = "remedies"
    /\ disease' = <<>>
    /\ clean_disease' = <<>>
    /\ disease_data' = 0
    /\ remedies_data' = NoData
    /\ calls' = <<>>
    /\ response' = NoResponse

\* a request arrives
Request ==
    /\ pc = "idle"
    /\ \E ep \in Endpoints, raw \in RawNames : Handle(ep, raw)

Next ==
    \/ Request
    \/ diseases_query
    \/ herbal_remedies_query
    \/ cohere_generate
    \/ Finish

Spec == Init /\ [][Next]_vars

(* ---------------------------- properties ------------------------------- *)
\* the request in progress passed validation
Accepted == pc # "idle" /\ response.status_code # 400

\* the request in progress was rejected by validation
Rejected == pc # "idle" /\ validate_disease_name(disease).raised

Whitespace == {9, 10, 11, 12, 13, 28, 29, 30, 31, 32}

\* the normalized form as the specification words it: '_' and '-' become one
\* space each, surrounding whitespace is dropped, letters become lowercase
Normalized(raw) ==
    LET r  == [i \in 1..Len(raw) |-> IF raw[i] = 95 \/ raw[i] = 45 THEN 32 ELSE raw[i]]
        in == {i \in 1..Len(raw) : r[i] \notin Whitespace}
        lo == CHOOSE i \in in : \A j \in in : i <= j
        hi == CHOOSE i \in in : \A j \in in : j <= i
    IN  IF in = {} THEN <<>>
        ELSE [k \in 1..(hi - lo + 1) |->
                 IF r[lo + k - 1] \in 65..90 THEN r[lo + k - 1] + 32 ELSE r[lo + k - 1]]

\* a character of the class the validator allows
Allowed(c) ==
    c \in (48..57) \cup (65..90) \cup (97..122) \cup {95, 45} \cup Whitespace

\* the i-th collaborator call of the request failed
Failed(i) ==
    \/ calls[i].raised # "none"
    \/ calls[i].call \in {"diseases", "generate"} /\ calls[i].n = 0

InvalidCharacters == "Invalid characters in disease name"
TooLong == "Disease name too long (max 50 chars)"

\* C1: a request whose raw disease string validate_disease_name rejects ends
\* with a 400 response, and no collaborator (diseases query, herbal_remedies
\* query, summarizer) is called during it, on either endpoint.
C1_RejectedNeverReachesCollaborators ==
    Rejected => /\ pc = "done"
                /\ response.status_code = 400
                /\ calls = <<>>

C1_Witness ==
    /\ pc = "done"
    /\ endpoint = "cohere-summary"
    /\ validate_disease_name(disease).raised
    /\ response.status_code = 400

\* C2: for every accepted raw string the returned value is the raw string with
\* each '_' and '-' replaced by a space, then stripped, then lowercased;
\* "Common_Cold" yields "common cold" and "  Migraine  " yields "migraine".
C2_ReturnsNormalizedForm ==
    Accepted =>
        /\ clean_disease = Normalized(disease)
        /\ disease = <<67, 111, 109, 109, 111, 110, 95, 67, 111, 108, 100>>
             => clean_disease = <<99, 111, 109, 109, 111, 110, 32, 99, 111, 108, 100>>
        /\ disease = <<32, 32, 77, 105, 103, 114, 97, 105, 110, 101, 32, 32>>
             => clean_disease = <<109, 105, 103, 114, 97, 105, 110, 101>>

C2_Witness ==
    /\ Accepted
    /\ disease = <<32, 32, 77, 105, 103, 114, 97, 105, 110, 101, 32, 32>>
    /\ clean_disease = <<109, 105, 103, 114, 97, 105, 110, 101>>

\* C3: a raw string whose normalized form is empty is rejected with a 400;
\* validate_disease_name never returns the empty string and the record store
\* is never queried with an empty key.
C3_EmptyNormalizedFormRejected ==
    /\ (pc # "idle" /\ Normalized(disease) = <<>>)
          => (pc = "done" /\ response.status_code = 400 /\ calls = <<>>)
    /\ Accepted => clean_disease # <<>>
    /\ \A i \in 1..Len(calls) : calls[i].call = "diseases" => calls[i].key # <<>>

C3_Witness ==
    /\ pc = "done"
    /\ disease = <<95, 95, 95>>
    /\ response.status_code = 400
    /\ calls = <<>>

\* C4: the character check comes before the length check: a normalized form
\* with a character outside the allowed class is rejected as invalid
\* characters even when it is longer than 50; a normalized form of allowed
\* characters only is rejected as too long exactly when it is longer than 50
\* (51 'a' rejected as too long, 50 'a' accepted).
C4_CharacterCheckBeforeLengthCheck ==
    pc # "idle" =>
        LET n == Normalized(disease)
        IN  /\ (\E i \in 1..Len(n) : ~ Allowed(n[i]))
                 => (response.status_code = 400 /\ response.detail = InvalidCharacters)
            /\ (\A i \in 1..Len(n) : Allowed(n[i]))
                 => ((response.status_code = 400 /\ response.detail = TooLong)
                        <=> Len(n) > 50)
            /\ disease = Rep(97, 51)
                 => (response.status_code = 400 /\ response.detail = TooLong)
            /\ disease = Rep(97, 50) => Accepted

C4_Witness ==
    /\ pc = "done"
    /\ Len(Normalized(disease)) > 50
    /\ \E i \in 1..Len(disease) : disease[i] = 33
    /\ response.status_code = 400
    /\ response.detail = InvalidCharacters

\* C5: idempotence: for an accepted raw string with result n,
\* validate_disease_name(n) is not rejected and returns n unchanged.
C5_Idempotent ==
    Accepted => /\ ~ validate_disease_name(clean_disease).raised
                /\ validate_disease_name(clean_disease).value = clean_disease

C5_Witness ==
    /\ Accepted
    /\ clean_disease # disease
    /\ Len(clean_disease) >= 1
    /\ validate_disease_name(clean_disease).value = clean_disease

\* C6: when the diseases query returns no rows the request ends with a 404,
\* never with a success; the herbal_remedies query is not issued and, on
\* /cohere-summary, the summarizer is not called.
C6_NoRowsIsNotFound ==
    \A i \in 1..Len(calls) :
        (calls[i].call = "diseases" /\ calls[i].raised = "none" /\ calls[i].n = 0)
            => /\ pc = "done"
               /\ response.status_code = 404
               /\ Len(calls) = 1

C6_Witness ==
    /\ pc = "done"
    /\ endpoint = "cohere-summary"
    /\ Len(calls) = 1
    /\ calls[1].raised = "none"
    /\ calls[1].n = 0
    /\ response.status_code = 404

\* C7 as stated: on /cohere-summary, once the store lookup has succeeded, any
\* failure of the generate call gives a 503, zero generations give a 500, and
\* a success response needs at least one generation.
C7_AnyGenerateFailureIs503 ==
    \A i \in 1..Len(calls) :
        calls[i].call = "generate" =>
            /\ calls[i].raised # "none" => response.status_code = 503
            /\ (calls[i].raised = "none" /\ calls[i].n = 0) => response.status_code = 500
            /\ response.status_code = 200 => (calls[i].raised = "none" /\ calls[i].n >= 1)

\* C7 amended: a cohere.CohereError raised by the generate call gives a 503,
\* any other exception raised by it gives a 500, zero generations give a 500,
\* and a success response needs at least one generation.
C7_CohereErrorIs503 ==
    \A i \in 1..Len(calls) :
        calls[i].call = "generate" =>
            /\ calls[i].raised = "CohereError" => response.status_code = 503
            /\ calls[i].raised = "Exception" => response.status_code = 500
            /\ (calls[i].raised = "none" /\ calls[i].n = 0) => response.status_code = 500
            /\ response.status_code = 200 => (calls[i].raised = "none" /\ calls[i].n >= 1)

C7_Witness ==
    /\ pc = "done"
    /\ Len(calls) = 3
    /\ calls[3].raised = "CohereError"
    /\ response.status_code = 503

\* C8: when the diseases query or the herbal_remedies query fails, the request
\* ends with a 500 carrying a detail message; /cohere-summary passes the 500 of
\* get_remedies through unchanged and does not call the summarizer.
C8_StoreFailureIs500 ==
    \A i \in 1..Len(calls) :
        (calls[i].call \in {"diseases", "herbal_remedies"} /\ calls[i].raised # "none")
            => /\ pc = "done"
               /\ response.status_code = 500
               /\ response.detail = "Database error"
               /\ Len(calls) = i

C8_Witness ==
    /\ pc = "done"
    /\ endpoint = "cohere-summary"
    /\ Len(calls) = 2
    /\ calls[2].raised = "Exception"
    /\ response.status_code = 500

\* C9: every string validate_disease_name returns (every key sent to the record
\* store, every name put into the prompt) is at most 50 characters long, has no
\* leading or trailing whitespace, and consists of word characters, digits,
\* spaces and hyphens, the space being the only whitespace it contains.
C9_SpaceIsTheOnlyWhitespace ==
    Accepted =>
        /\ Len(clean_disease) <= 50
        /\ clean_disease # <<>> =>
              (clean_disease[1] \notin Whitespace
                 /\ clean_disease[Len(clean_disease)] \notin Whitespace)
        /\ \A i \in 1..Len(clean_disease) :
              clean_disease[i] \in (48..57) \cup (65..90) \cup (97..122) \cup {95, 45, 32}
        /\ \A i \in 1..Len(calls) :
              calls[i].call \in {"diseases", "generate"} => calls[i].key = clean_disease

\* C10: within one request to /cohere-summary the diseases query, the
\* herbal_remedies query and the generate call are each issued at most once,
\* in that order, each only after the previous one succeeded, and the first
\* failure ends the request with an error response.
C10_NoRetryInOrder ==
    endpoint = "cohere-summary" =>
        /\ Len(calls) <= 3
        /\ \A i \in 1..Len(calls) :
              /\ calls[i].call = <<"diseases", "herbal_remedies", "generate">>[i]
              /\ i < Len(calls) => ~ Failed(i)
              /\ Failed(i) => /\ pc = "done"
                              /\ response.status_code \in {404, 500, 503}
                              /\ response.detail # ""

C10_Witness ==
    /\ pc = "done"
    /\ endpoint = "cohere-summary"
    /\ Len(calls) = 3
    /\ ~ Failed(3)
    /\ response.status_code = 200
    /\ response.summary

====
